---- MODULE Spec2Model ----
(***************************************************************************)
(* Model of sentiment_analyzer.py: the word-list sentiment scorer          *)
(* (SimpleSentimentAnalyzer), the per-record aggregation loop of           *)
(* analyze_reviews and generate_insights.                                  *)
(*                                                                         *)
(* Representation.  A Python str is a sequence of one-character strings,   *)
(* so that lower(), the regular expression of clean_text, strip() and      *)
(* split() are computed character by character.  A token that split()      *)
(* yields is turned into a TLA+ string (Word) so that the lexicons read as *)
(* in the source.  A float that the program computes from integers is an   *)
(* exact fraction <<numerator, denominator>>; round(x, n) is the integer   *)
(* number of 10^-n units, rounded half to even as Python rounds.           *)
(***************************************************************************)
EXTENDS Integers, Sequences, FiniteSets, TLC

VARIABLES
    csv_file,       \* sample_reviews.csv: NoFile, or the rows DictReader yields
    pc,             \* position of analyze_reviews
    reviews_data,   \* list(reader)
    idx,            \* 1-based position of the for loop in reviews_data
    results,        \* the results dict
    all_words,      \* list of qualifying words, in order of occurrence
    polarities,     \* unrounded polarities of the retained reviews
    subjectivities, \* unrounded subjectivities of the retained reviews
    artifact,       \* the documents written to analysis_results.json
    returned,       \* what analyze_reviews returned
    text_in,        \* argument of a direct call of calculate_sentiment
    scored          \* result of that call

vars == <<csv_file, pc, reviews_data, idx, results, all_words, polarities,
          subjectivities, artifact, returned, text_in, scored>>

-----------------------------------------------------------------------------
(* Bounds of the model *)

MaxReviews == 4

MaxPieces == 3

-----------------------------------------------------------------------------
(* Characters *)

LowerCase == <<"a","b","c","d","e","f","g","h","i","j","k","l","m",
               "n","o","p","q","r","s","t","u","v","w","x","y","z">>

UpperCase == <<"A","B","C","D","E","F","G","H","I","J","K","L","M",
               "N","O","P","Q","R","S","T","U","V","W","X","Y","Z">>

Range(s) == {s[k] : k \in DOMAIN s}

LowerSet == Range(LowerCase)

UpperSet == Range(UpperCase)

IsLower(c) == c \in LowerSet

IsUpper(c) == c \in UpperSet

\* each upper-case letter's lower-case letter
ToLower == [c \in UpperSet |-> LowerCase[CHOOSE k \in DOMAIN UpperCase : UpperCase[k] = c]]

\* the characters that \s, str.strip() and str.split() treat as whitespace
IsSpace(c) == c \in {" ", "\t", "\n"}

\* str.lower() on one character
LowerChar(c) == IF IsUpper(c) THEN ToLower[c] ELSE c

\* str.lower()
lower(text) == [k \in DOMAIN text |-> LowerChar(text[k])]

\* re.sub(r'[^a-zA-Z\s]', '', text): drop what is neither a letter nor whitespace
IsLetterOrSpace(c) == IsLower(c) \/ IsUpper(c) \/ IsSpace(c)

re_sub(text) == SelectSeq(text, IsLetterOrSpace)

\* str.split(): the maximal runs of non-whitespace characters, in order
\* the members of a set of positions, in increasing order
Least(S) == CHOOSE k \in S : \A j \in S : k <= j

RECURSIVE InOrder(_)
InOrder(S) ==
    IF S = {} THEN <<>>
    ELSE LET m == Least(S) IN <<m>> \o InOrder(S \ {m})

split(text) ==
    LET starts == {k \in DOMAIN text :
                      ~IsSpace(text[k]) /\ (k = 1 \/ IsSpace(text[k - 1]))}
        ends   == {k \in DOMAIN text :
                      ~IsSpace(text[k]) /\ (k = Len(text) \/ IsSpace(text[k + 1]))}
        from   == InOrder(starts)
        to     == InOrder(ends)
    IN  [i \in DOMAIN from |-> SubSeq(text, from[i], to[i])]

\* ' '.join(parts)
RECURSIVE join(_)
join(parts) ==
    IF parts = <<>> THEN <<>>
    ELSE IF Len(parts) = 1 THEN parts[1]
    ELSE join(SubSeq(parts, 1, Len(parts) - 1)) \o <<" ">> \o parts[Len(parts)]

\* str.strip(): drop leading and trailing whitespace
RECURSIVE lstrip(_)
lstrip(text) ==
    IF text # <<>> /\ IsSpace(Head(text)) THEN lstrip(Tail(text)) ELSE text

RECURSIVE rstrip(_)
rstrip(text) ==
    IF text # <<>> /\ IsSpace(text[Len(text)])
    THEN rstrip(SubSeq(text, 1, Len(text) - 1))
    ELSE text

strip(text) == rstrip(lstrip(text))

\* a token as a TLA+ string
RECURSIVE Word(_)
Word(chars) == IF chars = <<>> THEN "" ELSE Head(chars) \o Word(Tail(chars))

Words(tokens) == [k \in DOMAIN tokens |-> Word(tokens[k])]

-----------------------------------------------------------------------------
(* SimpleSentimentAnalyzer *)

positive_words == {
    "amazing", "excellent", "fantastic", "great", "wonderful", "awesome",
    "perfect", "love", "best", "good", "nice", "beautiful", "outstanding",
    "brilliant", "superb", "magnificent", "incredible", "marvelous",
    "exceptional", "impressive", "delightful", "pleased", "satisfied",
    "happy", "recommend", "quality", "fast", "quick", "easy", "comfortable" }

negative_words == {
    "terrible", "awful", "horrible", "bad", "worst", "hate", "disappointing",
    "useless", "waste", "poor", "cheap", "broken", "defective", "slow",
    "difficult", "hard", "uncomfortable", "annoying", "frustrating",
    "expensive", "overpriced", "fake", "fraud", "scam", "regret",
    "return", "refund", "complaint", "problem", "issue", "fail" }

clean_text(text) ==
    IF text = <<>> THEN <<>>
    ELSE join(split(re_sub(lower(text))))

\* sum(1 for word in words if word in lexicon)
CountIn(words, lexicon) == Cardinality({k \in DOMAIN words : words[k] \in lexicon})

\* variant: the threshold taken inclusively (polarity >= 0.1)
GtTenth_Inclusive(q) == 10 * q[1] >= q[2]

\* polarity > 0.1, polarity < -0.1 on the fraction q = <<n, d>>, d > 0
GtTenth(q) == 10 * q[1] > q[2]

LtMinusTenth(q) == 10 * q[1] < -q[2]

Classify(polarity) ==
    IF GtTenth(polarity) THEN "positive"
    ELSE IF LtMinusTenth(polarity) THEN "negative"
    ELSE "neutral"

\* variant: polarity normalised by the sentiment words instead of all words
Polarity_OverSentimentWords(positive_count, negative_count, n_words) ==
    LET total_sentiment_words == positive_count + negative_count
    IN  IF total_sentiment_words = 0
        THEN <<0, 1>>
        ELSE <<positive_count - negative_count, total_sentiment_words>>

\* lines 55-59, for a non-empty list of n_words words
Polarity(positive_count, negative_count, n_words) ==
    LET total_sentiment_words == positive_count + negative_count
    IN  IF total_sentiment_words = 0
        THEN <<0, 1>>
        ELSE <<positive_count - negative_count, n_words>>

calculate_sentiment(text) ==
    LET words == Words(split(clean_text(text)))
    IN  IF words = <<>>
        THEN [polarity |-> <<0, 1>>, subjectivity |-> <<0, 1>>, sentiment |-> "neutral"]
        ELSE LET positive_count == CountIn(words, positive_words)
                 negative_count == CountIn(words, negative_words)
                 total_sentiment_words == positive_count + negative_count
                 polarity == Polarity(positive_count, negative_count, Len(words))
                 subjectivity == <<total_sentiment_words, Len(words)>>
             IN  [polarity |-> polarity, subjectivity |-> subjectivity,
                  sentiment |-> Classify(polarity)]

-----------------------------------------------------------------------------
(* Numbers: exact fractions <<n, d>> with d > 0 *)

Abs(n) == IF n < 0 THEN -n ELSE n

RECURSIVE Gcd(_, _)
Gcd(a, b) == IF b = 0 THEN a ELSE Gcd(b, a % b)

Reduce(q) ==
    LET g == Gcd(Abs(q[1]), q[2])
    IN  IF g = 0 THEN <<0, 1>> ELSE <<q[1] \div g, q[2] \div g>>

AddFrac(a, b) == Reduce(<<a[1] * b[2] + b[1] * a[2], a[2] * b[2]>>)

SubFrac(a, b) == AddFrac(a, <<-b[1], b[2]>>)

\* n / d, the quotient rounded half to even (\div rounds down, so 0 <= r < d)
RoundHalfEven(n, d) ==
    LET q == n \div d
        r == n - q * d
    IN  IF 2 * r < d THEN q
        ELSE IF 2 * r > d THEN q + 1
        ELSE IF q % 2 = 0 THEN q ELSE q + 1

\* round(x, 1) in tenths and round(x, 3) in thousandths
Round1(q) == RoundHalfEven(q[1] * 10, q[2])

Round3(q) == RoundHalfEven(q[1] * 1000, q[2])

\* sum(values) of a list of fractions
RECURSIVE SumFrac(_)
SumFrac(values) ==
    IF values = <<>> THEN <<0, 1>>
    ELSE AddFrac(Head(values), SumFrac(Tail(values)))

-----------------------------------------------------------------------------
(* Python values held by a row of csv.DictReader *)

\* a str, by its characters
Str(chars) == [kind |-> "str", val |-> chars]

\* None: DictReader's restval for a row shorter than the header
None == [kind |-> "none", val |-> <<>>]

\* the int 0 that line 114 passes as the default of Rating
Int0 == [kind |-> "int", val |-> <<"0">>]

\* the key is not in the dict: the header has no such column
Absent == [kind |-> "absent", val |-> <<>>]

\* dict.get(key, default)
get(review, key, default) ==
    IF review[key].kind = "absent" THEN default ELSE review[key]

Digits == <<"0","1","2","3","4","5","6","7","8","9">>

DigitSet == Range(Digits)

IsDigit(c) == c \in DigitSet

DigitVal(c) == (CHOOSE k \in DOMAIN Digits : Digits[k] = c) - 1

RECURSIVE DecimalValue(_, _)
DecimalValue(chars, acc) ==
    IF chars = <<>> THEN acc
    ELSE DecimalValue(Tail(chars), 10 * acc + DigitVal(Head(chars)))

RECURSIVE Pow10(_)
Pow10(k) == IF k = 0 THEN 1 ELSE 10 * Pow10(k - 1)

AllDigits(chars) == \A k \in DOMAIN chars : IsDigit(chars[k])

\* float(str) for plain decimal literals: surrounding whitespace is ignored,
\* then an optional sign, digits and at most one decimal point with a digit on
\* one side of it; anything else is a ValueError.  (Exponents, underscores,
\* "inf" and "nan" are outside the alphabet of the inputs.)
ParseFloat(chars) ==
    LET s        == strip(chars)
        signed   == s # <<>> /\ s[1] \in {"+", "-"}
        body     == IF signed THEN Tail(s) ELSE s
        dots     == {k \in DOMAIN body : body[k] = "."}
        dot      == IF dots = {} THEN Len(body) + 1 ELSE CHOOSE k \in dots : TRUE
        intpart  == SubSeq(body, 1, dot - 1)
        fracpart == SubSeq(body, dot + 1, Len(body))
        ok       == /\ Cardinality(dots) <= 1
                    /\ AllDigits(intpart) /\ AllDigits(fracpart)
                    /\ Len(intpart) + Len(fracpart) > 0
        mag      == <<DecimalValue(intpart \o fracpart, 0), Pow10(Len(fracpart))>>
    IN  IF ok
        THEN [ok |-> TRUE,
              val |-> Reduce(IF signed /\ s[1] = "-" THEN <<-mag[1], mag[2]>> ELSE mag)]
        ELSE [ok |-> FALSE, val |-> <<0, 1>>]

\* float(x): TypeError for None, ValueError for a str that is no number
float(x) ==
    IF x.kind = "none" THEN [ok |-> FALSE, val |-> <<0, 1>>]
    ELSE ParseFloat(x.val)

-----------------------------------------------------------------------------
(* Program constants *)

\* len(word) > 3
MinWordLen == 3

\* word_freq.most_common(10)
TopN == 10

\* most_positive['review_text'][:100]
SnapshotLen == 100

Ellipsis == <<".", ".", ".">>

Unknown == <<"U","n","k","n","o","w","n">>

Yes == <<"Y","e","s">>

No == <<"N","o">>

EmptyDict == <<>>

-----------------------------------------------------------------------------
(* analyze_reviews: the per-record loop *)

Columns == {"Review_ID", "Review_Text", "Rating", "Product_Category",
            "Verified_Purchase"}

\* results as constructed on lines 79-88; averages are held in thousandths
\* and satisfaction_score in tenths, the units they are rounded to
InitialResults ==
    [total_reviews          |-> 0,
     sentiment_distribution |-> [positive |-> 0, negative |-> 0, neutral |-> 0],
     average_polarity       |-> 0,
     average_subjectivity   |-> 0,
     satisfaction_score     |-> 0,
     reviews                |-> <<>>,
     insights               |-> EmptyDict,
     word_analysis          |-> EmptyDict]

\* review.get('Review_Text', '')
ReviewText(review) == get(review, "Review_Text", Str(<<>>))

\* review_text.strip() on None: AttributeError
TextRaises(review) == ReviewText(review).kind = "none"

\* variant: only the empty text is skipped (strip() forgotten)
IsSkipped_EmptyOnly(review) ==
    /\ ~TextRaises(review)
    /\ ReviewText(review).val = <<>>

\* if not review_text.strip(): continue
IsSkipped(review) ==
    /\ ~TextRaises(review)
    /\ strip(ReviewText(review).val) = <<>>

\* float(review.get('Rating', 0))
Rating(review) == float(get(review, "Rating", Int0))

\* variant: the rating is stored without float(), so only the text can raise
RecordRaises_TextOnly(review) == TextRaises(review)

\* the record raises somewhere in lines 103-120
RecordRaises(review) ==
    \/ TextRaises(review)
    \/ ~IsSkipped(review) /\ ~Rating(review).ok

\* lines 111-120
review_result(review, s) ==
    LET review_text == ReviewText(review).val
    IN  [review_id    |-> get(review, "Review_ID", Str(<<>>)),
         review_text  |-> review_text,
         rating       |-> Rating(review).val,
         sentiment    |-> s.sentiment,
         polarity     |-> Round3(s.polarity),
         subjectivity |-> Round3(s.subjectivity),
         category     |-> get(review, "Product_Category", Str(Unknown)),
         verified     |-> get(review, "Verified_Purchase", Str(No)) = Str(Yes)]

\* variant: neutral reviews are not counted
BumpDistribution_SkipsNeutral(dist, sentiment) ==
    IF sentiment = "neutral" THEN dist ELSE [dist EXCEPT ![sentiment] = @ + 1]

\* results['sentiment_distribution'][sentiment] += 1
BumpDistribution(dist, sentiment) == [dist EXCEPT ![sentiment] = @ + 1]

\* [word for word in clean_words if len(word) > 3]
IsQualifying(word) == Len(word) > MinWordLen

QualifyingWords(review_text) ==
    SelectSeq(Words(split(clean_text(review_text))), IsQualifying)

-----------------------------------------------------------------------------
(* analyze_reviews: statistics, word frequencies; generate_insights *)

\* sum(values) / len(values), rounded to 3 decimals
Average(values) ==
    LET total == SumFrac(values)
    IN  Round3(<<total[1], total[2] * Len(values)>>)

\* variant: the negative ratio is left out
SatisfactionScore_NoNegative(dist, total_reviews) ==
    LET positive_ratio == <<dist.positive, total_reviews>>
        x == AddFrac(positive_ratio, <<1, 1>>)
    IN  Round1(<<x[1] * 50, x[2]>>)

\* round((positive_ratio - negative_ratio + 1) * 50, 1)
SatisfactionScore(dist, total_reviews) ==
    LET positive_ratio == <<dist.positive, total_reviews>>
        negative_ratio == <<dist.negative, total_reviews>>
        x == AddFrac(SubFrac(positive_ratio, negative_ratio), <<1, 1>>)
    IN  Round1(<<x[1] * 50, x[2]>>)

\* Counter(all_words): <<word, count>> pairs in order of first occurrence
Counter(words) ==
    LET first == InOrder({k \in DOMAIN words : \A j \in 1..(k - 1) : words[j] # words[k]})
    IN  [i \in DOMAIN first |->
            <<words[first[i]],
              Cardinality({k \in DOMAIN words : words[k] = words[first[i]]})>>]

\* variant: among equal counts the later word comes first
ComesBefore_LaterFirst(items, j, k) ==
    \/ items[j][2] > items[k][2]
    \/ items[j][2] = items[k][2] /\ j > k

\* sorted(items, key=count, reverse=True): the sort is stable, so an item
\* comes before those with a smaller count and the later ones with its count
ComesBefore(items, j, k) ==
    \/ items[j][2] > items[k][2]
    \/ items[j][2] = items[k][2] /\ j < k

RECURSIVE SortPositions(_, _)
SortPositions(items, left) ==
    IF left = {} THEN <<>>
    ELSE LET k == CHOOSE k \in left : \A j \in left \ {k} : ComesBefore(items, k, j)
         IN  <<items[k]>> \o SortPositions(items, left \ {k})

SortByCount(items) == SortPositions(items, DOMAIN items)

\* Counter.most_common(n): nlargest(n, items, key=count) = sorted(...)[:n]
most_common(word_freq, n) ==
    LET sorted == SortByCount(word_freq)
    IN  SubSeq(sorted, 1, IF Len(sorted) < n THEN Len(sorted) ELSE n)

\* variant: a later item with an equal key replaces the best so far
RECURSIVE MaxFrom_LastWins(_, _)
MaxFrom_LastWins(reviews, best) ==
    IF reviews = <<>> THEN best
    ELSE MaxFrom_LastWins(Tail(reviews),
                 IF Head(reviews).polarity >= best.polarity THEN Head(reviews) ELSE best)

\* max(reviews, key=lambda x: x['polarity']): a later item replaces the best
\* so far only when its key is strictly greater
RECURSIVE MaxFrom(_, _)
MaxFrom(reviews, best) ==
    IF reviews = <<>> THEN best
    ELSE MaxFrom(Tail(reviews),
                 IF Head(reviews).polarity > best.polarity THEN Head(reviews) ELSE best)

MaxByPolarity(reviews) == MaxFrom(Tail(reviews), Head(reviews))

\* min(reviews, key=lambda x: x['polarity'])
RECURSIVE MinFrom(_, _)
MinFrom(reviews, best) ==
    IF reviews = <<>> THEN best
    ELSE MinFrom(Tail(reviews),
                 IF Head(reviews).polarity < best.polarity THEN Head(reviews) ELSE best)

MinByPolarity(reviews) == MinFrom(Tail(reviews), Head(reviews))

\* {'text': review['review_text'][:100] + '...', 'polarity': review['polarity']}
Snapshot(review) ==
    LET t == review.review_text
    IN  [text     |-> SubSeq(t, 1, IF Len(t) < SnapshotLen THEN Len(t) ELSE SnapshotLen)
                      \o Ellipsis,
         polarity |-> review.polarity]

\* round((count / total) * 100, 1), in tenths
Percentage(count, total) == Round1(<<count * 100, total>>)

\* variant: the bands exclude their lower bounds
OverallTrend_Exclusive(score) ==
    IF score > 70 * 10 THEN "Highly Positive"
    ELSE IF score > 50 * 10 THEN "Moderately Positive"
    ELSE IF score > 30 * 10 THEN "Mixed"
    ELSE "Negative"

\* the banding of lines 183-190; score is in tenths
OverallTrend(score) ==
    IF score >= 70 * 10 THEN "Highly Positive"
    ELSE IF score >= 50 * 10 THEN "Moderately Positive"
    ELSE IF score >= 30 * 10 THEN "Mixed"
    ELSE "Negative"

generate_insights(res) ==
    LET total == res.total_reviews
        dist  == res.sentiment_distribution
        base  == [positive_percentage |-> Percentage(dist.positive, total),
                  negative_percentage |-> Percentage(dist.negative, total),
                  neutral_percentage  |-> Percentage(dist.neutral, total),
                  overall_trend       |-> OverallTrend(res.satisfaction_score)]
    IN  IF total = 0 THEN EmptyDict
        ELSE IF res.reviews # <<>>
        THEN base @@ [most_positive_review |-> Snapshot(MaxByPolarity(res.reviews)),
                      most_negative_review |-> Snapshot(MinByPolarity(res.reviews))]
        ELSE base

\* lines 132-140
WithStatistics(res, pols, subjs) ==
    LET total == Len(res.reviews)
    IN  IF total > 0
        THEN [res EXCEPT
                !.total_reviews = total,
                !.average_polarity = Average(pols),
                !.average_subjectivity = Average(subjs),
                !.satisfaction_score = SatisfactionScore(res.sentiment_distribution, total)]
        ELSE [res EXCEPT !.total_reviews = total]

\* lines 143-147
WithWordAnalysis(res, words) ==
    LET word_freq == Counter(words)
    IN  [res EXCEPT !.word_analysis =
            [most_common |-> most_common(word_freq, TopN),
             total_unique_words |-> Len(word_freq)]]

\* line 150
WithInsights(res) == [res EXCEPT !.insights = generate_insights(res)]

-----------------------------------------------------------------------------
(* Inputs *)

Text_Good == <<"G","o","o","d">>

Text_Great == <<"G","r","e","a","t","!","!">>

Text_Bad == <<"b","a","d","!">>

Text_Neutral == <<"I","t","e","m"," ","n","o","."," ","4","2">>

Text_Blank == <<" ","\t"," ">>

Text_Nice == <<"N","i","c","e">>

\* 123 characters, 13 tokens, 12 distinct words longer than 3 letters
Text_Long ==
    <<"O","u","t","s","t","a","n","d","i","n","g"," ","c","r","a","f","t","s",
      "m","a","n","s","h","i","p",","," ","c","o","m","f","o","r","t","a","b",
      "l","e"," ","a","n","d"," ","l","i","g","h","t","w","e","i","g","h","t",
      ";"," ","d","u","r","a","b","l","e"," ","m","a","t","e","r","i","a","l",
      "s",","," ","e","x","c","e","l","l","e","n","t"," ","b","a","t","t","e",
      "r","y",","," ","b","r","i","l","l","i","a","n","t"," ","d","i","s","p",
      "l","a","y",":"," ","g","o","o","d"," ","i","t","e","m","!">>

Row(id, text, rating, category, verified) ==
    [Review_ID |-> id, Review_Text |-> text, Rating |-> rating,
     Product_Category |-> category, Verified_Purchase |-> verified]

Toys == Str(<<"T","o","y","s">>)

NotANumber == Str(<<"N","/","A">>)

RowGood    == Row(Str(<<"1">>), Str(Text_Good), Str(<<"5">>), Toys, Str(Yes))

RowGreat   == Row(Str(<<"2">>), Str(Text_Great), Str(<<"4",".","5">>), Toys, Str(No))

RowBad     == Row(Str(<<"3">>), Str(Text_Bad), Str(<<" ","1">>), Toys, Str(Yes))

RowNeutral == Row(Str(<<"4">>), Str(Text_Neutral), Str(<<"3">>), Toys, Str(No))

\* blank text
RowBlank   == Row(Str(<<"5">>), Str(Text_Blank), Str(<<"2">>), Toys, Str(Yes))

\* blank text and a rating that is no number
RowBlankBadRating == Row(Str(<<"1","1">>), Str(Text_Blank), NotANumber, Toys, Str(Yes))

RowLong    == Row(Str(<<"6">>), Str(Text_Long), Str(<<"5">>), Toys, Str(Yes))

\* text to score and a rating that is no number
RowBadRating == Row(Str(<<"7">>), Str(Text_Good), NotANumber, Toys, Str(Yes))

\* a line with three cells under the five-column header: the rest is None
RowTail    == Row(Str(<<"8">>), Str(Text_Nice), Str(<<"4">>), None, None)

\* a line with two cells
RowShort   == Row(Str(<<"9">>), Str(Text_Nice), None, None, None)

\* a line with one cell
RowIdOnly  == Row(Str(<<"1","0">>), None, None, None, None)

\* the header of the file: which columns the dicts of DictReader have
FullHeader == Columns

TextOnlyHeader == {"Review_ID", "Review_Text"}

NoTextHeader == Columns \ {"Review_Text"}

\* a row as DictReader yields it under a header
UnderHeader(header, row) ==
    [c \in Columns |-> IF c \in header THEN row[c] ELSE Absent]

SeqsUpTo(S, n) == UNION {[1..k -> S] : k \in 0..n}

NoFile == [exists |-> FALSE, rows |-> <<>>]

Files(headers, rows) ==
    {[exists |-> TRUE, rows |-> [k \in DOMAIN rs |-> UnderHeader(h, rs[k])]] :
        h \in headers, rs \in SeqsUpTo(rows, MaxReviews)}

\* files with every column: the texts vary
TextRows == {RowGood, RowGreat, RowBad, RowNeutral, RowBlank, RowLong, RowBadRating}

\* files whose cells and columns vary
FieldRows == {RowGood, RowBlankBadRating, RowBadRating, RowTail, RowShort, RowIdOnly}

\* pieces that direct calls of calculate_sentiment are made of
Piece_Good == <<"G","o","o","d"," ">>

Piece_Bad == <<"b","a","d","!">>

Piece_Item == <<"i","t","e","m","\n">>

Piece_Number == <<"4","2"," ">>

Piece_Space == <<" ">>

\* eight tokens outside both lexicons
Piece_Filler ==
    <<" ","i","t"," ","w","a","s"," ","o","k"," ","f","o","r"," ","m","e"," ",
      "a","n","d"," ","m","y"," ","f","a","m","i","l","y","\t">>

Pieces == {Piece_Good, Piece_Bad, Piece_Item, Piece_Number, Piece_Space, Piece_Filler}

RECURSIVE Concat(_)
Concat(parts) == IF parts = <<>> THEN <<>> ELSE Head(parts) \o Concat(Tail(parts))

ScoreTexts == {Concat(ps) : ps \in SeqsUpTo(Pieces, MaxPieces)}

-----------------------------------------------------------------------------
(* The state machine *)

NotReturned == [status |-> "running", error |-> ""]

NotScored == [done |-> FALSE, polarity |-> <<0, 1>>, subjectivity |-> <<0, 1>>,
              sentiment |-> ""]

InitRun(files) ==
    /\ csv_file \in files
    /\ pc = "read"
    /\ reviews_data = <<>>
    /\ idx = 1
    /\ results = InitialResults
    /\ all_words = <<>>
    /\ polarities = <<>>
    /\ subjectivities = <<>>
    /\ artifact = <<>>
    /\ returned = NotReturned
    /\ text_in = <<>>
    /\ scored = NotScored

Init == InitRun({NoFile} \cup Files({FullHeader}, TextRows))

InitFields ==
    InitRun({NoFile} \cup Files({FullHeader, TextOnlyHeader, NoTextHeader}, FieldRows))

\* open('sample_reviews.csv') raises FileNotFoundError: lines 92, 162-164
OpenMissing ==
    /\ pc = "read"
    /\ ~csv_file.exists
    /\ pc' = "returned"
    /\ returned' = [status |-> "none", error |-> "FileNotFoundError"]
    /\ UNCHANGED <<csv_file, reviews_data, idx, results, all_words, polarities,
                   subjectivities, artifact, text_in, scored>>

\* lines 92-100
ReadFile ==
    /\ pc = "read"
    /\ csv_file.exists
    /\ reviews_data' = csv_file.rows
    /\ pc' = "loop"
    /\ UNCHANGED <<csv_file, idx, results, all_words, polarities, subjectivities,
                   artifact, returned, text_in, scored>>

\* lines 102-105: the record's text is blank, continue
SkipRecord ==
    /\ pc = "loop"
    /\ idx <= Len(reviews_data)
    /\ IsSkipped(reviews_data[idx])
    /\ idx' = idx + 1
    /\ UNCHANGED <<csv_file, pc, reviews_data, results, all_words, polarities,
                   subjectivities, artifact, returned, text_in, scored>>

\* lines 102-129: the record is scored and appended
ScoreRecord ==
    /\ pc = "loop"
    /\ idx <= Len(reviews_data)
    /\ LET review == reviews_data[idx]
       IN  /\ ~RecordRaises(review)
           /\ ~IsSkipped(review)
           /\ LET review_text == ReviewText(review).val
                  s == calculate_sentiment(review_text)
              IN  /\ results' = [results EXCEPT
                        !.reviews = Append(@, review_result(review, s)),
                        !.sentiment_distribution = BumpDistribution(@, s.sentiment)]
                  /\ polarities' = Append(polarities, s.polarity)
                  /\ subjectivities' = Append(subjectivities, s.subjectivity)
                  /\ all_words' = all_words \o QualifyingWords(review_text)
    /\ idx' = idx + 1
    /\ UNCHANGED <<csv_file, pc, reviews_data, artifact, returned, text_in, scored>>

\* lines 103-120 raise; lines 165-167 report and return None
RaiseInLoop ==
    /\ pc = "loop"
    /\ idx <= Len(reviews_data)
    /\ RecordRaises(reviews_data[idx])
    /\ pc' = "returned"
    /\ returned' = [status |-> "none", error |-> "Exception"]
    /\ UNCHANGED <<csv_file, reviews_data, idx, results, all_words, polarities,
                   subjectivities, artifact, text_in, scored>>

\* lines 131-160: statistics, word analysis, insights, json.dump, return results
Finalize ==
    /\ pc = "loop"
    /\ idx > Len(reviews_data)
    /\ results' = WithInsights(WithWordAnalysis(
                      WithStatistics(results, polarities, subjectivities), all_words))
    /\ artifact' = Append(artifact, results')
    /\ returned' = [status |-> "results", error |-> ""]
    /\ pc' = "returned"
    /\ UNCHANGED <<csv_file, reviews_data, idx, all_words, polarities,
                   subjectivities, text_in, scored>>

Next ==
    \/ OpenMissing
    \/ ReadFile
    \/ SkipRecord
    \/ ScoreRecord
    \/ RaiseInLoop
    \/ Finalize

Spec == Init /\ [][Next]_vars

SpecFields == InitFields /\ [][Next]_vars

\* a direct call of calculate_sentiment
InitScore ==
    /\ text_in \in ScoreTexts
    /\ scored = NotScored
    /\ csv_file = NoFile
    /\ pc = "call"
    /\ reviews_data = <<>>
    /\ idx = 1
    /\ results = InitialResults
    /\ all_words = <<>>
    /\ polarities = <<>>
    /\ subjectivities = <<>>
    /\ artifact = <<>>
    /\ returned = NotReturned

Score ==
    /\ pc = "call"
    /\ ~scored.done
    /\ LET s == calculate_sentiment(text_in)
       IN  scored' = [done |-> TRUE, polarity |-> s.polarity,
                      subjectivity |-> s.subjectivity, sentiment |-> s.sentiment]
    /\ UNCHANGED <<csv_file, pc, reviews_data, idx, results, all_words, polarities,
                   subjectivities, artifact, returned, text_in>>

NextScore == Score

SpecScore == InitScore /\ [][NextScore]_vars

-----------------------------------------------------------------------------
(* Vocabulary of the properties *)

\* the text of a row, '' when the row has no such column
TextOfRow(row) ==
    IF row.Review_Text.kind = "str" THEN row.Review_Text.val ELSE <<>>

\* the text is empty or all whitespace
BlankRow(row) ==
    \A k \in DOMAIN TextOfRow(row) : TextOfRow(row)[k] \in {" ", "\t", "\n"}

NonBlankRow(row) == ~BlankRow(row)

\* the records the loop has dealt with, and those among them with text to score
Handled == SubSeq(reviews_data, 1, idx - 1)

KeptRows(rows) == SelectSeq(rows, NonBlankRow)

\* the run ended with a report
Reported == returned.status = "results"

\* the retained reviews labelled so
LabelCount(label) ==
    Cardinality({k \in DOMAIN results.reviews : results.reviews[k].sentiment = label})

-----------------------------------------------------------------------------
(* C1 *)

\* C1: in every state of the loop the three counts of sentiment_distribution
\* sum to the number of entries appended to reviews, and when the run ends with
\* a report they sum to total_reviews, in results and in the written document.
C1_CountsSumToTotal ==
    LET d == results.sentiment_distribution
    IN  /\ DOMAIN d = {"positive", "negative", "neutral"}
        /\ d.positive + d.negative + d.neutral = Len(results.reviews)
        /\ Reported =>
              /\ d.positive + d.negative + d.neutral = results.total_reviews
              /\ \A k \in DOMAIN artifact :
                    LET a == artifact[k].sentiment_distribution
                    IN  a.positive + a.negative + a.neutral = artifact[k].total_reviews

\* a report over four records, one of them skipped, one review of each label
C1_Witness ==
    /\ Reported
    /\ Len(reviews_data) = 4
    /\ results.total_reviews = 3
    /\ results.sentiment_distribution = [positive |-> 1, negative |-> 1, neutral |-> 1]

-----------------------------------------------------------------------------
(* C2 *)

\* the reviews are the records dealt with so far whose text is not blank, in order
C2_OutputIsFilteredInput ==
    LET kept == KeptRows(Handled)
    IN  /\ Len(results.reviews) = Len(kept)
        /\ \A k \in DOMAIN kept :
              /\ results.reviews[k].review_text = TextOfRow(kept[k])
              /\ results.reviews[k].review_id = get(kept[k], "Review_ID", Str(<<>>))
        /\ Reported => Handled = reviews_data

\* a step of the loop at a record with blank text changes no accumulator
C2_SkipChangesNothing ==
    (/\ pc = "loop"
     /\ idx <= Len(reviews_data)
     /\ reviews_data[idx].Review_Text.kind # "none"
     /\ BlankRow(reviews_data[idx]))
    => /\ idx' = idx + 1
       /\ results' = results
       /\ polarities' = polarities
       /\ subjectivities' = subjectivities
       /\ all_words' = all_words

\* C2: reviews is the input sequence with the records of empty or all-whitespace
\* text removed, in the same order, and processing such a record leaves reviews,
\* sentiment_distribution, the polarity and subjectivity accumulators and the
\* word accumulator unchanged.
C2_BlankRecordsAreDropped ==
    /\ []C2_OutputIsFilteredInput
    /\ [][C2_SkipChangesNothing]_vars

\* a report whose input had a blank record between two scored ones
C2_Witness ==
    /\ Reported
    /\ Len(reviews_data) = 3
    /\ NonBlankRow(reviews_data[1])
    /\ BlankRow(reviews_data[2])
    /\ NonBlankRow(reviews_data[3])
    /\ Len(results.reviews) = 2
    /\ results.reviews[1].review_text # results.reviews[2].review_text

-----------------------------------------------------------------------------
(* C3 *)

\* float() of the row's rating cell fails
UnconvertibleRating(row) ==
    \/ row.Rating.kind = "none"
    \/ row.Rating.kind = "str" /\ ~ParseFloat(row.Rating.val).ok

\* the run writes no report or, at its end, one complete report
C3_OneReportOrNone ==
    /\ Len(artifact) <= 1
    /\ pc # "returned" => artifact = <<>> /\ returned.status = "running"
    /\ pc = "returned" =>
          \/ /\ Reported
             /\ artifact = <<results>>
             /\ Handled = reviews_data
             /\ results.total_reviews = Len(KeptRows(reviews_data))
             /\ DOMAIN results.word_analysis = {"most_common", "total_unique_words"}
          \/ /\ returned.status = "none"
             /\ artifact = <<>>

-----------------------------------------------------------------------------
(* C4 *)

\* the row has no value for the column: no such column, or a short line
MissingCell(row, column) == row[column].kind \in {"absent", "none"}

\* C4: no run fails at a record because one of its fields is missing; a handled
\* record with non-blank text is retained with rating 0.0, category "Unknown"
\* and verified false in place of its missing fields, and a handled record
\* without text is skipped.
C4_MissingFieldsAreDefaulted ==
    \A k \in DOMAIN reviews_data :
        LET row == reviews_data[k]
            at  == Len(KeptRows(SubSeq(reviews_data, 1, k)))
        IN  /\ (returned.error = "Exception" /\ idx = k) =>
                  /\ ~MissingCell(row, "Review_Text")
                  /\ ~MissingCell(row, "Rating")
            /\ (k < idx /\ MissingCell(row, "Review_Text")) =>
                  Len(KeptRows(SubSeq(reviews_data, 1, k - 1))) = at
            /\ (k < idx /\ NonBlankRow(row) /\ at <= Len(results.reviews)) =>
                  LET r == results.reviews[at]
                  IN  /\ MissingCell(row, "Rating") => r.rating = <<0, 1>>
                      /\ MissingCell(row, "Product_Category") => r.category = Str(Unknown)
                      /\ MissingCell(row, "Verified_Purchase") => r.verified = FALSE

-----------------------------------------------------------------------------
(* C5, C6: direct calls of calculate_sentiment *)

TokensOf(text) == Words(split(clean_text(text)))

\* C5: for every text, subjectivity is in [0, 1] and |polarity| <= subjectivity;
\* in token counts, |positive - negative| <= positive + negative <= tokens, and
\* no word is in both lexicons.
C5_PolarityWithinSubjectivity ==
    scored.done =>
        LET p == scored.polarity
            s == scored.subjectivity
            words == TokensOf(text_in)
            positive_count == CountIn(words, positive_words)
            negative_count == CountIn(words, negative_words)
        IN  /\ p[2] > 0 /\ s[2] > 0
            /\ 0 <= s[1] /\ s[1] <= s[2]
            /\ Abs(p[1]) * s[2] <= s[1] * p[2]
            /\ Abs(positive_count - negative_count) <= positive_count + negative_count
            /\ positive_count + negative_count <= Len(words)
            /\ positive_words \cap negative_words = {}

\* a text with positive and negative words: 0 < |polarity| < subjectivity
C5_Witness ==
    /\ scored.done
    /\ scored.polarity = <<1, 3>>
    /\ scored.subjectivity = <<3, 3>>

\* C6: the label is positive exactly when (positive - negative) / tokens > 0.1,
\* negative exactly when it is < -0.1 and neutral otherwise; a text with no token
\* or no lexicon hit is neutral with polarity 0 and subjectivity 0.
C6_LabelByThreshold ==
    scored.done =>
        LET words == TokensOf(text_in)
            n     == Len(words)
            net   == CountIn(words, positive_words) - CountIn(words, negative_words)
            hits  == CountIn(words, positive_words) + CountIn(words, negative_words)
        IN  IF n = 0 \/ hits = 0
            THEN /\ scored.sentiment = "neutral"
                 /\ scored.polarity[1] = 0
                 /\ scored.subjectivity[1] = 0
            ELSE /\ scored.polarity[1] * n = net * scored.polarity[2]
                 /\ scored.sentiment = "positive" <=> 10 * net > n
                 /\ scored.sentiment = "negative" <=> 10 * net < -n
                 /\ scored.sentiment = "neutral" <=> (10 * net <= n /\ 10 * net >= -n)

\* one net positive word in ten tokens: polarity exactly 0.1, neutral
C6_Witness ==
    /\ scored.done
    /\ Len(TokensOf(text_in)) = 10
    /\ scored.polarity = <<1, 10>>
    /\ scored.sentiment = "neutral"

-----------------------------------------------------------------------------
(* C7, C8 *)

\* C7: satisfaction_score is in [0, 100]; with t > 0 retained reviews, p of them
\* positive and n negative, it is (p/t - n/t + 1) * 50 rounded to one decimal
\* (within 0.05 of it); with none retained it is 0.0, and so are both averages.
C7_SatisfactionScore ==
    Reported =>
        LET t == Len(results.reviews)
            p == LabelCount("positive")
            n == LabelCount("negative")
            score == results.satisfaction_score
        IN  /\ results.total_reviews = t
            /\ 0 <= score /\ score <= 100 * 10
            /\ t > 0 => 2 * Abs(score * t - 500 * (p - n + t)) <= t
            /\ t = 0 => /\ score = 0
                        /\ results.average_polarity = 0
                        /\ results.average_subjectivity = 0

\* one positive review of three: (1/3 + 1) * 50 = 66.67 is reported as 66.7
C7_Witness ==
    /\ Reported
    /\ Len(results.reviews) = 3
    /\ LabelCount("positive") = 1
    /\ LabelCount("negative") = 0
    /\ results.satisfaction_score = 667

\* C8: insights is empty when total_reviews = 0; otherwise overall_trend is
\* Highly Positive iff the score >= 70, Moderately Positive iff 50 <= score < 70,
\* Mixed iff 30 <= score < 50 and Negative iff score < 30.
C8_TrendBands ==
    Reported =>
        LET score == results.satisfaction_score
            ins   == results.insights
        IN  /\ results.total_reviews = 0 => DOMAIN ins = {}
            /\ results.total_reviews > 0 =>
                  /\ "overall_trend" \in DOMAIN ins
                  /\ ins.overall_trend = "Highly Positive" <=> score >= 700
                  /\ ins.overall_trend = "Moderately Positive" <=>
                        (score >= 500 /\ score < 700)
                  /\ ins.overall_trend = "Mixed" <=> (score >= 300 /\ score < 500)
                  /\ ins.overall_trend = "Negative" <=> score < 300

\* 2 positive, 1 negative and 1 neutral review: 62.5, Moderately Positive
C8_Witness ==
    /\ Reported
    /\ results.sentiment_distribution = [positive |-> 2, negative |-> 1, neutral |-> 1]
    /\ results.satisfaction_score = 625
    /\ results.insights.overall_trend = "Moderately Positive"

-----------------------------------------------------------------------------
(* C9 *)

\* text[:100] + '...'
Truncated(text) ==
    [k \in 1..((IF Len(text) < 100 THEN Len(text) ELSE 100) + 3) |->
        IF k <= Len(text) /\ k <= 100 THEN text[k] ELSE "."]

\* the first review, in input order, whose polarity is p
FirstWithPolarity(p) ==
    CHOOSE k \in DOMAIN results.reviews :
        /\ results.reviews[k].polarity = p
        /\ \A j \in 1..(k - 1) : results.reviews[j].polarity # p

\* C9: with at least one retained review, the most-positive snapshot is that of
\* the first review in input order among those of maximum polarity, and the
\* most-negative snapshot that of the first among those of minimum polarity.
C9_FirstExtremeReview ==
    (Reported /\ results.reviews # <<>>) =>
        LET rs   == results.reviews
            pols == {rs[k].polarity : k \in DOMAIN rs}
            hi   == CHOOSE m \in pols : \A q \in pols : q <= m
            lo   == CHOOSE m \in pols : \A q \in pols : m <= q
            ins  == results.insights
        IN  /\ ins.most_positive_review =
                  [text |-> Truncated(rs[FirstWithPolarity(hi)].review_text),
                   polarity |-> hi]
            /\ ins.most_negative_review =
                  [text |-> Truncated(rs[FirstWithPolarity(lo)].review_text),
                   polarity |-> lo]

\* two reviews of different text tie at the maximum: the earlier one is shown
C9_Witness ==
    /\ Reported
    /\ \E j, k \in DOMAIN results.reviews :
          /\ j < k
          /\ results.reviews[j].polarity = results.reviews[k].polarity
          /\ \A i \in DOMAIN results.reviews :
                results.reviews[i].polarity <= results.reviews[j].polarity
          /\ \A i \in 1..(j - 1) :
                results.reviews[i].polarity < results.reviews[j].polarity
          /\ results.reviews[j].review_text # results.reviews[k].review_text
          /\ results.insights.most_positive_review.text =
                Truncated(results.reviews[j].review_text)
          /\ results.insights.most_positive_review.text #
                Truncated(results.reviews[k].review_text)

-----------------------------------------------------------------------------
(* C10 *)

LongerThanThree(word) == Len(word) > 3

\* the tokens longer than 3 letters of the retained reviews, in order
RECURSIVE QualifyingTokens(_)
QualifyingTokens(reviews) ==
    IF reviews = <<>> THEN <<>>
    ELSE QualifyingTokens(SubSeq(reviews, 1, Len(reviews) - 1))
         \o SelectSeq(TokensOf(reviews[Len(reviews)].review_text), LongerThanThree)

Occurrences(tokens, word) == Cardinality({k \in DOMAIN tokens : tokens[k] = word})

FirstOccurrence(tokens, word) ==
    CHOOSE k \in DOMAIN tokens :
        tokens[k] = word /\ \A j \in 1..(k - 1) : tokens[j] # word

MostCommonIsTopTen(tokens, mc) ==
    LET distinct == Range(tokens)
        listed   == {mc[i][1] : i \in DOMAIN mc}
    IN  /\ Len(mc) = IF Cardinality(distinct) < 10 THEN Cardinality(distinct) ELSE 10
        /\ \A i \in DOMAIN mc :
              /\ mc[i][1] \in distinct
              /\ Len(mc[i][1]) > 3
              /\ mc[i][2] = Occurrences(tokens, mc[i][1])
        /\ \A i, j \in DOMAIN mc :
              i < j =>
                 /\ mc[i][1] # mc[j][1]
                 /\ \/ mc[i][2] > mc[j][2]
                    \/ /\ mc[i][2] = mc[j][2]
                       /\ FirstOccurrence(tokens, mc[i][1]) < FirstOccurrence(tokens, mc[j][1])
        /\ \A w \in distinct \ listed :
              \A i \in DOMAIN mc : Occurrences(tokens, w) <= mc[i][2]

\* C10: most_common has min(10, distinct qualifying words) entries, each a token
\* longer than 3 letters of a retained review with its count over all retained
\* reviews, by descending count, equal counts in order of first occurrence, and
\* no omitted word has a higher count than a listed one.
C10_MostCommon ==
    Reported =>
        MostCommonIsTopTen(QualifyingTokens(results.reviews),
                           results.word_analysis.most_common)

\* more than ten distinct words, the most frequent one first although it was not
\* the first encountered, equal counts after it
C10_Witness ==
    /\ Reported
    /\ results.word_analysis.total_unique_words > 10
    /\ Len(results.word_analysis.most_common) = 10
    /\ results.word_analysis.most_common[1][2] >= 2
    /\ results.word_analysis.most_common[1][1] # all_words[1]
    /\ results.word_analysis.most_common[2][2] = results.word_analysis.most_common[3][2]

====
